---- MODULE Spec2Model ----
(***************************************************************************)
(* Model of the meditation bell generator:                                 *)
(*   src/ios/NoNonsenseMeditation/Resources/Sounds/generate_bells.py       *)
(*   src/ios/NoNonsenseMeditation/Resources/Sounds/sound_explore.py        *)
(*                                                                         *)
(* generate_bell_tone is modelled statement by statement, save_bell_sound  *)
(* as one step, main as the sequence of its eight calls.                   *)
(*                                                                         *)
(* Numbers.  Times (duration_sec, the entries of t, the attack envelope)   *)
(* are exact rationals <<numerator, denominator>>.  Amplitudes are fixed   *)
(* point integers in units of 1/Scale; a floating point product or         *)
(* quotient is modelled by the exact one truncated to that unit.  NaN is   *)
(* a value of its own, outside every range.                                *)
(***************************************************************************)
EXTENDS Integers, Sequences, FiniteSets

\* ------------------------------------------------------------------ bounds

\* Durations of a tone request run over -5 ms .. MaxDurationMs ms.
MaxDurationMs == 25
\* Sample rates of a tone request are 50 * k Hz, k in -2 .. MaxRateSteps.
MaxRateSteps == 6
\* Frequencies of a tone request are 220 * k Hz, k in -1 .. MaxFreqSteps.
MaxFreqSteps == 2
\* save_bell_sound called on its own: buffers of up to MaxSaveLen samples,
\* each k/4 of full scale with |k| <= MaxSaveQuarters (and a few more).
MaxSaveLen == 2
MaxSaveQuarters == 6

\* --------------------------------------------------------- number helpers

\* Amplitude unit: a sample value v stands for v / Scale.
Scale == 10 * 10 * 10

\* Phase unit: a turn is divided in PhaseRes steps before the sine is taken.
PhaseRes == Scale

\* The float NaN (0.0 / 0.0).
NaN == 0 - 2^30

IsNaN(v) == v = NaN

Abs(v) == IF v < 0 THEN 0 - v ELSE v

Min(a, b) == IF a <= b THEN a ELSE b

\* Python's int(n / d) for d > 0: truncation toward zero.
Trunc(n, d) == IF n >= 0 THEN n \div d ELSE 0 - ((0 - n) \div d)

\* Python's round(n / d) for d > 0: nearest integer, ties to even.
Round(n, d) ==
    LET f == (2 * n + d) \div (2 * d)
    IN  IF (2 * n + d) % (2 * d) = 0 /\ f % 2 = 1 THEN f - 1 ELSE f

\* ------------------------------------------------------------ the two files

Variants == {"generate_bells", "sound_explore"}

\* The sine partials as <<weight in 1/1000, frequency multiplier in 1/40>>.
Partials(variant, frequency) ==
    IF variant = "generate_bells"
    THEN << <<1000, 40>>, <<500, 80>>, <<300, 120>>, <<200, 180>>, <<150, 216>> >>
    ELSE << <<1000, 40>>, <<500, 80>>, <<300, 120>>, <<150, 170>>, <<125, 205>> >>
         \o (IF frequency < 400
             THEN << <<50, 160>>, <<25, 240>>, <<50, 340>> >>
             ELSE << >>)

\* np.sin(2 * np.pi * turns) for turns = pn / pd (pd > 0), in 1/Scale:
\* the phase is reduced to one turn, and the half wave is Bhaskara's
\* 16 x (pi - x) / (5 pi^2 - 4 x (pi - x)), exactly 0 at 0 and at half a turn.
SinTurns(pn, pd) ==
    LET q == ((pn % pd) * PhaseRes) \div pd
        H == PhaseRes \div 2
        z == IF q <= H THEN q ELSE q - H
        mag == (Scale * 16 * z * (H - z)) \div (5 * H * H - 4 * z * (H - z))
    IN  IF q <= H THEN mag ELSE 0 - mag

\* np.exp(-3.0 * x) for x = xn / xd in [0, 1], in 1/Scale: the cube of the
\* Pade approximant (12 - 6x + x^2) / (12 + 6x + x^2) of exp(-x).
ExpDecay(xn, xd) ==
    LET x == (xn * Scale) \div xd
        num == 12 * Scale * Scale - 6 * Scale * x + x * x
        den == 12 * Scale * Scale + 6 * Scale * x + x * x
        r == num \div (den \div Scale)
    IN  (r * r * r) \div (Scale * Scale)

\* A variant of NumSamples that rounds the product to the nearest integer.
NumSamplesRounded(duration_sec, sample_rate) ==
    Round(sample_rate * duration_sec[1], duration_sec[2])

\* int(sample_rate * duration_sec).  On the requests modelled the float
\* product truncates to the same integer as the exact one.
NumSamples(duration_sec, sample_rate) ==
    Trunc(sample_rate * duration_sec[1], duration_sec[2])

\* int(0.01 * sample_rate)
AttackSamples(sample_rate) == Trunc(sample_rate, 100)

\* A variant of Linspace that leaves the end point out (endpoint=False).
LinspaceNoEndpoint(stop, num) ==
    [i \in 1..num |-> <<(i - 1) * stop[1], stop[2] * num>>]

\* np.linspace(0, stop, num) for num >= 0: num equally spaced times, the
\* first 0 and (for num >= 2) the last stop.
Linspace(stop, num) ==
    [i \in 1..num |->
        IF num = 1 THEN <<0, stop[2]>>
        ELSE <<(i - 1) * stop[1], stop[2] * (num - 1)>>]

\* np.linspace raises ValueError for a negative number of samples.
LinspaceRaises(num) == num < 0

\* signal[:attack_samples] *= attack_envelope raises ValueError unless the
\* envelope has the slice's length or broadcasts (length 1).
BroadcastRaises(attack, n) == ~(attack = Min(attack, n) \/ attack = 1)

\* np.max of an empty array raises ValueError.
MaxRaises(n) == n = 0

\* The sum of the partials at time tt.
HarmonicSum(variant, frequency, tt) ==
    LET P == Partials(variant, frequency)
        S[k \in 0..Len(P)] ==
            IF k = 0 THEN 0
            ELSE S[k - 1]
                 + Trunc(P[k][1] * SinTurns(frequency * P[k][2] * tt[1], 40 * tt[2]),
                         1000)
    IN  S[Len(P)]

\* np.max(np.abs(signal)) of a non-empty signal.
Peak(signal) ==
    LET M[k \in 0..Len(signal)] ==
            IF k = 0 THEN 0
            ELSE IF Abs(signal[k]) > M[k - 1] THEN Abs(signal[k]) ELSE M[k - 1]
    IN  M[Len(signal)]

\* The target peak 0.8.
PeakTarget == (8 * Scale) \div 10

\* signal / peak * 0.8, elementwise; 0.0 / 0.0 is NaN.
Normalized(signal) ==
    LET peak == Peak(signal)
    IN  [i \in 1..Len(signal) |->
            IF peak = 0 THEN NaN ELSE Trunc(signal[i] * PeakTarget, peak)]

\* ------------------------------------------------------------------- state

VARIABLES
    variant,          \* which of the two files runs
    duration_sec,     \* generate_bell_tone's arguments
    frequency,
    sample_rate,
    pc,               \* position in generate_bell_tone / save_bell_sound
    t,                \* the time array
    signal,           \* the sample buffer
    attack_samples,
    attack_envelope,
    err,              \* the exception that ended the call, or "none"
    audio_int16,      \* save_bell_sound's quantized samples
    wav,              \* the file save_bell_sound wrote, or NoFile
    cue,              \* main: index of the cue being generated
    main_pc,          \* main: position
    bell,             \* main: the buffer returned by generate_bell_tone
    disk,             \* main: the files of the script directory
    writes,           \* main: the files written, in order
    unwritable        \* main: the paths wavfile.write cannot open

toneVars == <<duration_sec, frequency, sample_rate, pc, t, signal,
              attack_samples, attack_envelope, err, audio_int16, wav>>
mainVars == <<cue, main_pc, bell, disk, writes, unwritable>>
vars == <<variant, toneVars, mainVars>>

NoFile == [rate |-> 0, channels |-> 0, bits |-> 0, data |-> << >>]

\* ------------------------------------------------- generate_bell_tone

Durations == {<<ms, 1000>> : ms \in (0 - 5)..MaxDurationMs}
SampleRates == {50 * k : k \in (0 - 2)..MaxRateSteps}
Frequencies == {220 * k : k \in (0 - 1)..MaxFreqSteps}

MainIdle ==
    /\ cue = 0
    /\ main_pc = "idle"
    /\ bell = << >>
    /\ disk = << >>
    /\ writes = << >>
    /\ unwritable = {}

Init ==
    /\ variant \in Variants
    /\ duration_sec \in Durations
    /\ frequency \in Frequencies
    /\ sample_rate \in SampleRates
    /\ pc = "call"
    /\ t = << >>
    /\ signal = << >>
    /\ attack_samples = 0
    /\ attack_envelope = << >>
    /\ err = "none"
    /\ audio_int16 = << >>
    /\ wav = NoFile
    /\ MainIdle

Raise(e) ==
    /\ pc' = "raised"
    /\ err' = e

\* t = np.linspace(0, duration_sec, int(sample_rate * duration_sec))
TimeArray ==
    /\ pc = "call"
    /\ LET n == NumSamples(duration_sec, sample_rate)
       IN  IF LinspaceRaises(n)
           THEN Raise("ValueError") /\ UNCHANGED t
           ELSE /\ t' = Linspace(duration_sec, n)
                /\ pc' = "harmonics"
                /\ UNCHANGED err
    /\ UNCHANGED <<variant, duration_sec, frequency, sample_rate, signal,
                   attack_samples, attack_envelope, audio_int16, wav, mainVars>>

\* signal = np.sin(...) ; signal += w * np.sin(...) for each overtone
Harmonics ==
    /\ pc = "harmonics"
    /\ signal' = [i \in 1..Len(t) |-> HarmonicSum(variant, frequency, t[i])]
    /\ pc' = "decay"
    /\ UNCHANGED <<variant, duration_sec, frequency, sample_rate, t,
                   attack_samples, attack_envelope, err, audio_int16, wav,
                   mainVars>>

\* decay = np.exp(-3.0 * t / duration_sec) ; signal *= decay
Decay ==
    /\ pc = "decay"
    /\ signal' = [i \in 1..Len(signal) |->
                    Trunc(signal[i]
                          * ExpDecay(Abs(t[i][1] * duration_sec[2]),
                                     Abs(t[i][2] * duration_sec[1])),
                          Scale)]
    /\ pc' = "attack"
    /\ UNCHANGED <<variant, duration_sec, frequency, sample_rate, t,
                   attack_samples, attack_envelope, err, audio_int16, wav,
                   mainVars>>

\* attack_samples = int(0.01 * sample_rate)
\* attack_envelope = np.linspace(0, 1, attack_samples)
\* signal[:attack_samples] *= attack_envelope
Attack ==
    /\ pc = "attack"
    /\ LET a == AttackSamples(sample_rate)
           n == Len(signal)
       IN  /\ attack_samples' = a
           /\ IF LinspaceRaises(a)
              THEN Raise("ValueError") /\ UNCHANGED <<attack_envelope, signal>>
              ELSE /\ attack_envelope' = Linspace(<<1, 1>>, a)
                   /\ IF BroadcastRaises(a, n)
                      THEN Raise("ValueError") /\ UNCHANGED signal
                      ELSE /\ signal' =
                                [i \in 1..n |->
                                    IF i <= a
                                    THEN Trunc(signal[i] * attack_envelope'[i][1],
                                               attack_envelope'[i][2])
                                    ELSE signal[i]]
                           /\ pc' = "normalize"
                           /\ UNCHANGED err
    /\ UNCHANGED <<variant, duration_sec, frequency, sample_rate, t,
                   audio_int16, wav, mainVars>>

\* signal = signal / np.max(np.abs(signal)) * 0.8 ; return signal
Normalize ==
    /\ pc = "normalize"
    /\ IF MaxRaises(Len(signal))
       THEN Raise("ValueError") /\ UNCHANGED signal
       ELSE /\ signal' = Normalized(signal)
            /\ pc' = "returned"
            /\ UNCHANGED err
    /\ UNCHANGED <<variant, duration_sec, frequency, sample_rate, t,
                   attack_samples, attack_envelope, audio_int16, wav, mainVars>>

\* --------------------------------------------------- save_bell_sound

\* The factor of signal * 32767.
QuantScale == 32767

Int16Max == 2^15 - 1
Int16Min == 0 - 2^15

\* What the conversion of a float outside int16 (or NaN) gives is undefined
\* in C; a build either keeps the low 16 bits of the truncated value (NaN
\* as 0), or saturates (NaN as the lowest value).
Builds == {"wrap", "saturate"}

\* A variant of CastInt16 that rounds the product to the nearest integer.
CastInt16Rounded(v, build) ==
    LET x == Round(v * QuantScale, Scale)
    IN  IF IsNaN(v)
        THEN IF build = "wrap" THEN 0 ELSE Int16Min
        ELSE IF x >= Int16Min /\ x <= Int16Max
        THEN x
        ELSE IF build = "wrap"
        THEN ((x - Int16Min) % 2^16) + Int16Min
        ELSE IF x > Int16Max THEN Int16Max ELSE Int16Min

\* One element of np.int16(signal * 32767): the product truncated toward
\* zero when it fits int16, else what the build makes of it.
CastInt16(v, build) ==
    LET x == Trunc(v * QuantScale, Scale)
    IN  IF IsNaN(v)
        THEN IF build = "wrap" THEN 0 ELSE Int16Min
        ELSE IF x >= Int16Min /\ x <= Int16Max
        THEN x
        ELSE IF build = "wrap"
        THEN ((x - Int16Min) % 2^16) + Int16Min
        ELSE IF x > Int16Max THEN Int16Max ELSE Int16Min

\* audio_int16 = np.int16(signal * 32767)
\* wavfile.write(filename, sample_rate, audio_int16)
SaveBellSound ==
    /\ pc = "returned"
    /\ \E build \in Builds :
          audio_int16' = [i \in 1..Len(signal) |-> CastInt16(signal[i], build)]
    /\ wav' = [rate |-> sample_rate, channels |-> 1, bits |-> 16,
               data |-> audio_int16']
    /\ pc' = "saved"
    /\ UNCHANGED <<variant, duration_sec, frequency, sample_rate, t, signal,
                   attack_samples, attack_envelope, err, mainVars>>

Next ==
    \/ TimeArray
    \/ Harmonics
    \/ Decay
    \/ Attack
    \/ Normalize
    \/ SaveBellSound

\* One call of generate_bell_tone, its result passed to save_bell_sound.
Spec == Init /\ [][Next]_vars

\* save_bell_sound called with a buffer of the caller's own.
SaveSamples ==
    {k * (Scale \div 4) : k \in (0 - MaxSaveQuarters)..MaxSaveQuarters}
    \cup {NaN, 0 - 1, 1, PeakTarget, 0 - PeakTarget}

SaveBuffers ==
    UNION {[1..n -> SaveSamples] : n \in 0..MaxSaveLen}

\* The default of save_bell_sound's sample_rate parameter.
DefaultSampleRate == 44100

InitSave ==
    /\ variant \in Variants
    /\ duration_sec = <<0, 1>>
    /\ frequency = 0
    /\ sample_rate = DefaultSampleRate
    /\ pc = "returned"
    /\ t = << >>
    /\ signal \in SaveBuffers
    /\ attack_samples = 0
    /\ attack_envelope = << >>
    /\ err = "none"
    /\ audio_int16 = << >>
    /\ wav = NoFile
    /\ MainIdle

NextSave == SaveBellSound

SpecSave == InitSave /\ [][NextSave]_vars

\* --------------------------------------------------------------- main

\* sample_rate = 44100
MainSampleRate == 44100

\* A variant of Cues whose third call was pasted from the second and kept
\* its file name.
CuesCopyPaste(v) ==
    << [name |-> "meditation_start.wav", duration_sec |-> <<25, 10>>,
        frequency |-> 528],
       [name |-> "meditation_pause.wav", duration_sec |-> <<15, 10>>,
        frequency |-> 440],
       [name |-> "meditation_pause.wav", duration_sec |-> <<2, 1>>,
        frequency |-> IF v = "generate_bells" THEN 480 ELSE 550],
       [name |-> "meditation_completion.wav",
        duration_sec |-> IF v = "generate_bells" THEN <<3, 1>> ELSE <<5, 1>>,
        frequency |-> IF v = "generate_bells" THEN 396 ELSE 200] >>

\* The four calls of main (of the notebook cell), in program order.
Cues(v) ==
    << [name |-> "meditation_start.wav", duration_sec |-> <<25, 10>>,
        frequency |-> 528],
       [name |-> "meditation_pause.wav", duration_sec |-> <<15, 10>>,
        frequency |-> 440],
       [name |-> "meditation_resume.wav", duration_sec |-> <<2, 1>>,
        frequency |-> IF v = "generate_bells" THEN 480 ELSE 550],
       [name |-> "meditation_completion.wav",
        duration_sec |-> IF v = "generate_bells" THEN <<3, 1>> ELSE <<5, 1>>,
        frequency |-> IF v = "generate_bells" THEN 396 ELSE 200] >>

CueNames == {Cues("generate_bells")[k].name : k \in 1..4}

\* Whether generate_bell_tone raises on a request with a frequency other
\* than 0: at np.linspace, at the attack slice or at np.max.
ToneRaises(d, rate) ==
    \/ LinspaceRaises(NumSamples(d, rate))
    \/ LinspaceRaises(AttackSamples(rate))
    \/ BroadcastRaises(AttackSamples(rate), NumSamples(d, rate))
    \/ MaxRaises(NumSamples(d, rate))

ToneIdle ==
    /\ duration_sec = <<0, 1>>
    /\ frequency = 0
    /\ sample_rate = MainSampleRate
    /\ pc = "idle"
    /\ t = << >>
    /\ signal = << >>
    /\ attack_samples = 0
    /\ attack_envelope = << >>
    /\ err = "none"
    /\ audio_int16 = << >>
    /\ wav = NoFile

\* The state main starts in: any of the four files may exist already
\* ("stale"), and any of the four paths may be unwritable.
InitMain ==
    /\ variant \in Variants
    /\ ToneIdle
    /\ cue = 1
    /\ main_pc = "generate"
    /\ bell = << >>
    /\ disk \in [CueNames -> {"absent", "stale"}]
    /\ writes = << >>
    /\ unwritable \in SUBSET CueNames

\* x_bell = generate_bell_tone(duration_sec=.., frequency=.., sample_rate=sample_rate)
\* The buffer is kept as the request it answers and its length.
MainGenerate ==
    /\ main_pc = "generate"
    /\ LET c == Cues(variant)[cue]
       IN  IF ToneRaises(c.duration_sec, MainSampleRate)
           THEN main_pc' = "failed" /\ UNCHANGED bell
           ELSE /\ bell' = [duration_sec |-> c.duration_sec,
                            frequency |-> c.frequency,
                            sample_rate |-> MainSampleRate,
                            length |-> NumSamples(c.duration_sec, MainSampleRate)]
                /\ main_pc' = "save"
    /\ UNCHANGED <<variant, toneVars, cue, disk, writes, unwritable>>

\* The statement main runs after the save of cue k.
AfterSave(k) == IF k = 4 THEN "done" ELSE "generate"

\* save_bell_sound(os.path.join(script_dir, name), x_bell, sample_rate)
\* An exception of wavfile.write is not caught: it ends main.
MainSave ==
    /\ main_pc = "save"
    /\ LET c == Cues(variant)[cue]
       IN  IF c.name \in unwritable
           THEN main_pc' = "failed" /\ UNCHANGED <<cue, disk, writes>>
           ELSE /\ disk' = [disk EXCEPT ![c.name] =
                                [rate |-> MainSampleRate, channels |-> 1,
                                 bits |-> 16, length |-> bell.length]]
                /\ writes' = Append(writes, [name |-> c.name,
                                             rate |-> MainSampleRate,
                                             buffer |-> bell])
                /\ main_pc' = AfterSave(cue)
                /\ cue' = IF cue = 4 THEN cue ELSE cue + 1
    /\ UNCHANGED <<variant, toneVars, bell, unwritable>>

NextMain ==
    \/ MainGenerate
    \/ MainSave

SpecMain == InitMain /\ [][NextMain]_vars

\* main is a sequential program: while it has a statement to run, it runs it.
FairSpecMain == SpecMain /\ WF_vars(NextMain)

\* -------------------------------------------------------------- claims

\* duration_sec > 0, frequency > 0 and sample_rate > 0.
ValidRequest ==
    /\ duration_sec[1] > 0
    /\ frequency > 0
    /\ sample_rate > 0

\* generate_bell_tone has returned its buffer (signal).
Returned == pc \in {"returned", "saved"}

\* duration_sec * sample_rate as the fraction ProductNum / ProductDen.
ProductNum == sample_rate * duration_sec[1]
ProductDen == duration_sec[2]

C2_PeakIsTarget ==
    ValidRequest /\ Returned =>
        /\ Peak(signal) = PeakTarget
        /\ \A i \in 1..Len(signal) :
              ~IsNaN(signal[i]) /\ 0 - PeakTarget <= signal[i]
                                /\ signal[i] <= PeakTarget

\* C3, as stated: a request with a non-positive duration_sec, frequency or
\* sample_rate is rejected with an invalid-parameter error before any
\* synthesis step runs; no buffer is returned for it.
C3_InvalidRejected ==
    ~ValidRequest =>
        \/ pc = "call"
        \/ pc = "raised" /\ err = "InvalidParameter" /\ t = << >>

\* C4, as stated: save_bell_sound clips: a sample of exactly 1.0 is written
\* as 32767, and a sample whose product with 32767 is outside int16 is
\* written as the nearest bound of the range.
C4_Clipped ==
    pc = "saved" =>
        \A i \in 1..Len(signal) :
            ~IsNaN(signal[i]) =>
                /\ signal[i] = Scale => audio_int16[i] = Int16Max
                /\ signal[i] * QuantScale > Int16Max * Scale =>
                        audio_int16[i] = Int16Max
                /\ signal[i] * QuantScale < Int16Min * Scale =>
                        audio_int16[i] = Int16Min

\* The names of the files written so far.
Written == {writes[k].name : k \in 1..Len(writes)}

\* C5, as stated: when generating one cue fails, every other cue of the
\* four, those after the failing one included, is generated in that run.
C5_OthersGenerated ==
    main_pc = "failed" =>
        \A k \in 1..4 : k # cue => Cues(variant)[k].name \in Written

ExpectedNames ==
    << "meditation_start.wav", "meditation_pause.wav",
       "meditation_resume.wav", "meditation_completion.wav" >>

\* The four files were written once each, in order, each from the buffer
\* synthesized for its own cue, at the sample rate of that synthesis.
WrittenAllOnce ==
    /\ Len(writes) = 4
    /\ \A k \in 1..4 :
          /\ writes[k].name = ExpectedNames[k]
          /\ writes[k].rate = 44100
          /\ writes[k].buffer.sample_rate = writes[k].rate
          /\ writes[k].buffer.duration_sec = Cues(variant)[k].duration_sec
          /\ writes[k].buffer.frequency = Cues(variant)[k].frequency
          /\ writes[k].buffer.length * writes[k].buffer.duration_sec[2]
                = 44100 * writes[k].buffer.duration_sec[1]
          /\ disk[ExpectedNames[k]] =
                [rate |-> 44100, channels |-> 1, bits |-> 16,
                 length |-> writes[k].buffer.length]

\* C6: every run of main ends, and a run in which nothing raised ends with
\* the four files written once each, in order, whether or not they
\* existed, each after the synthesis of its own buffer and at that
\* synthesis' sample rate, 44100.
C6_RegeneratesAll ==
    /\ [](main_pc = "done" => WrittenAllOnce)
    /\ <>(main_pc = "failed" \/ (main_pc = "done" /\ WrittenAllOnce))

\* C6's case: main ran to its end with all four paths writable.
C6_Witness ==
    /\ main_pc = "done"
    /\ Len(writes) = 4
    /\ unwritable = {}

\* C7, as stated: a valid request shorter than the attack ramp (fewer
\* samples than attack samples) is served: the ramp is clamped and a buffer
\* of the normal length is returned.
C7_ShortToneServed ==
    /\ ValidRequest
    /\ NumSamples(duration_sec, sample_rate) < AttackSamples(sample_rate)
    =>
    /\ pc # "raised"
    /\ Returned => Len(signal) = NumSamples(duration_sec, sample_rate)

\* C8, as stated: a valid request of at least 10 ms is answered by a buffer
\* that has a first sample, and that sample is exactly 0.
C8_FirstSampleZero ==
    /\ ValidRequest
    /\ 100 * duration_sec[1] >= duration_sec[2]
    =>
    /\ pc # "raised"
    /\ Returned => Len(signal) >= 1 /\ signal[1] = 0

\* A sample within full scale, [-1.0, 1.0].
InFullScale(v) == ~IsNaN(v) /\ 0 - Scale <= v /\ v <= Scale

\* C9, as stated: a sample s in [-1.0, 1.0] is written as round(s * 32767),
\* the nearest integer.
C9_Rounded ==
    pc = "saved" =>
        \A i \in 1..Len(signal) :
            InFullScale(signal[i]) =>
                audio_int16[i] = Round(signal[i] * QuantScale, Scale)

\* C9, amended: a sample s in [-1.0, 1.0] is written as s * 32767 truncated
\* toward zero: the integer of the product's sign with the largest
\* magnitude not above the product's; the file holds as many samples as
\* the buffer, so a buffer of zeros is written as as many zeros.
C9_Truncated ==
    pc = "saved" =>
        /\ Len(audio_int16) = Len(signal)
        /\ wav.data = audio_int16
        /\ \A i \in 1..Len(signal) :
              InFullScale(signal[i]) =>
                  /\ audio_int16[i] * signal[i] >= 0
                  /\ Abs(audio_int16[i]) * Scale <= Abs(signal[i]) * QuantScale
                  /\ Abs(signal[i]) * QuantScale < (Abs(audio_int16[i]) + 1) * Scale

\* C9's case: a buffer holding 0.5 (a product with fractional part one
\* half) and 0.0 was saved.
C9_Witness ==
    /\ pc = "saved"
    /\ Len(signal) = 2
    /\ signal[1] = Scale \div 2
    /\ signal[2] = 0

\* C10: for a buffer of N >= 2 samples, sample i is at time
\* i * duration_sec / (N - 1): the first at 0, the last at duration_sec,
\* and the spacing is not 1 / sample_rate.
C10_TimesSpanDuration ==
    Len(t) >= 2 =>
        /\ \A i \in 1..Len(t) :
              t[i][1] * (Len(t) - 1) * duration_sec[2]
                  = (i - 1) * duration_sec[1] * t[i][2]
        /\ t[1][1] = 0
        /\ t[Len(t)][1] * duration_sec[2] = duration_sec[1] * t[Len(t)][2]
        /\ t[1][2] = t[2][2]
        /\ (t[2][1] - t[1][1]) * sample_rate # t[2][2]

\* C10's case: a time array of at least three samples was built.
C10_Witness ==
    /\ pc = "harmonics"
    /\ Len(t) >= 3

====
